---- MODULE Spec2Model ----
(***************************************************************************)
(* The benchmark orchestration engine of expressvpnspeedtest (app.go):     *)
(* the driver loop of main, findRegion, connectToVPN / waitForConnection,  *)
(* disconnectVPN, the series batch (speedTest), the parallel batch         *)
(* (runParallelSpeedTests) and the result store (writeToFile).             *)
(*                                                                         *)
(* Strings the program inspects character by character (command output,    *)
(* region tokens, the "<n>Mbps" fields) are sequences of one-character     *)
(* strings; strings it only copies are TLA+ strings.                       *)
(***************************************************************************)
EXTENDS Integers, Sequences, FiniteSets, TLC

(***************************************************************************)
(* Bounds of the model.                                                    *)
(***************************************************************************)
\* Largest number of locations in the input document.
MaxLocs == 2
\* Largest value of speedTestCount.
MaxCount == 2
\* Largest number of 500ms sleeps of one waitForConnection call.
MaxPolls == 2
\* Largest number of lines the region query prints.
MaxLines == 3
\* Largest number of samples of a batch given to the averaging on its own.
MaxBatch == 3
\* Largest number of stats of a document given to the store on its own.
MaxStats == 2

(***************************************************************************)
(* Strings.                                                                *)
(***************************************************************************)
EmptyStr == << >>

WhiteSpace == {" ", "\n", "\t", "\r"}

RECURSIVE TrimLeft(_)
TrimLeft(s) ==
    IF s # EmptyStr /\ Head(s) \in WhiteSpace THEN TrimLeft(Tail(s)) ELSE s

RECURSIVE TrimRight(_)
TrimRight(s) ==
    IF s # EmptyStr /\ s[Len(s)] \in WhiteSpace
    THEN TrimRight(SubSeq(s, 1, Len(s) - 1))
    ELSE s

\* strings.TrimSpace
TrimSpace(s) == TrimRight(TrimLeft(s))

\* strings.Split(s, "\n"): always at least one element.
RECURSIVE SplitLines(_)
SplitLines(s) ==
    IF \E i \in 1..Len(s) : s[i] = "\n"
    THEN LET i == CHOOSE k \in 1..Len(s) :
                      s[k] = "\n" /\ \A j \in 1..(k - 1) : s[j] # "\n"
         IN  <<SubSeq(s, 1, i - 1)>> \o SplitLines(SubSeq(s, i + 1, Len(s)))
    ELSE <<s>>

\* The letters of the model's alphabet that have a lower-case form.
ToLowerChar(c) ==
    CASE c = "R" -> "r"
      [] c = "B" -> "b"
      [] OTHER   -> c

\* strings.ToLower
ToLower(s) == [i \in 1..Len(s) |-> ToLowerChar(s[i])]

(***************************************************************************)
(* Region Resolver.                                                        *)
(***************************************************************************)
\* The error of the region query dropped: the output is parsed regardless.
getCommandOutputIgnoringErr(run) ==
    [err |-> FALSE, lines |-> SplitLines(TrimSpace(run.out))]

\* Result of running "expressvpnctl get regions": exit status and stdout.
\* getCommandOutput: nil and the error, or the trimmed output split in lines.
getCommandOutput(run) ==
    IF run.err
    THEN [err |-> TRUE, lines |-> << >>]
    ELSE [err |-> FALSE, lines |-> SplitLines(TrimSpace(run.out))]

formattedLocationOf(location) ==
    ToLower(location.Country) \o <<"-">> \o ToLower(location.City)

countryOnlyOf(location) == ToLower(location.Country)

\* The loop of findRegion comparing without regard to case.
RECURSIVE MatchLoopFoldingCase(_, _, _)
MatchLoopFoldingCase(lines, formattedLocation, countryOnly) ==
    IF lines = << >> THEN EmptyStr
    ELSE IF ToLower(Head(lines)) = formattedLocation THEN formattedLocation
    ELSE IF ToLower(Head(lines)) = countryOnly THEN countryOnly
    ELSE MatchLoopFoldingCase(Tail(lines), formattedLocation, countryOnly)

\* The loop of findRegion over the lines of the region list.
RECURSIVE MatchLoop(_, _, _)
MatchLoop(lines, formattedLocation, countryOnly) ==
    IF lines = << >> THEN EmptyStr
    ELSE IF Head(lines) = formattedLocation THEN formattedLocation
    ELSE IF Head(lines) = countryOnly THEN countryOnly
    ELSE MatchLoop(Tail(lines), formattedLocation, countryOnly)

\* findRegion, given what getCommandOutput returned.
findRegion(location, commandOut) ==
    IF commandOut.err
    THEN EmptyStr
    ELSE MatchLoop(commandOut.lines, formattedLocationOf(location),
                   countryOnlyOf(location))

(***************************************************************************)
(* Numbers in strings.                                                     *)
(***************************************************************************)
Digits == <<"0", "1", "2", "3", "4", "5", "6", "7", "8", "9">>

IsDigit(c) == \E d \in 1..10 : Digits[d] = c

DigitValue(c) == (CHOOSE d \in 1..10 : Digits[d] = c) - 1

\* fmt.Sprintf("%d", n) for n >= 0
RECURSIVE Itoa(_)
Itoa(n) == IF n < 10 THEN <<Digits[n + 1]>>
           ELSE Itoa(n \div 10) \o <<Digits[(n % 10) + 1]>>

RECURSIVE ParseDigits(_, _)
ParseDigits(s, acc) ==
    IF s = EmptyStr THEN acc
    ELSE ParseDigits(Tail(s), 10 * acc + DigitValue(Head(s)))

\* strconv.Atoi with the error discarded: 0 when s is not a number.
Atoi(s) ==
    IF s # EmptyStr /\ \A i \in 1..Len(s) : IsDigit(s[i])
    THEN ParseDigits(s, 0)
    ELSE 0

\* strings.TrimSuffix
TrimSuffix(s, suffix) ==
    IF /\ Len(s) >= Len(suffix)
       /\ SubSeq(s, Len(s) - Len(suffix) + 1, Len(s)) = suffix
    THEN SubSeq(s, 1, Len(s) - Len(suffix))
    ELSE s

MbpsSuffix == <<"M", "b", "p", "s">>

MsSuffix == <<"m", "s">>

\* The tool's bandwidth unit: bandwidth / 125000 is Mbps.
BandwidthPerMbps == 125000

\* fmt.Sprintf("%.2f", x) of a value given in hundredths.
FormatHundredths(h) ==
    Itoa(h \div 100) \o <<".">> \o <<Digits[((h % 100) \div 10) + 1]>>
        \o <<Digits[(h % 10) + 1]>>

\* total / count cut off after the hundredths.
MeanHundredthsTruncated(total, count) == (100 * total) \div count

\* total / count rounded to hundredths as "%.2f" rounds a float64: to the
\* nearest, an exact tie to the even neighbour.
MeanHundredths(total, count) ==
    LET q == (100 * total) \div count
        r == (100 * total) % count
    IN  IF 2 * r < count THEN q
        ELSE IF 2 * r > count THEN q + 1
        ELSE IF q % 2 = 0 THEN q ELSE q + 1

\* The fraction of a second in time.Duration.String: the milliseconds with
\* trailing zeros dropped.
FractionDigits(ms) ==
    IF ms % 100 = 0 THEN <<Digits[(ms \div 100) + 1]>>
    ELSE IF ms % 10 = 0
         THEN <<Digits[(ms \div 100) + 1], Digits[((ms % 100) \div 10) + 1]>>
         ELSE <<Digits[(ms \div 100) + 1], Digits[((ms % 100) \div 10) + 1],
                Digits[(ms % 10) + 1]>>

\* time.Duration.String of a duration of ms milliseconds, below one minute.
DurationString(ms) ==
    IF ms = 0 THEN <<"0", "s">>
    ELSE IF ms < 1000 THEN Itoa(ms) \o <<"m", "s">>
    ELSE IF ms % 1000 = 0 THEN Itoa(ms \div 1000) \o <<"s">>
    ELSE Itoa(ms \div 1000) \o <<".">> \o FractionDigits(ms % 1000) \o <<"s">>

\* The interval of the connection-state poll, in milliseconds.
PollIntervalMs == 500

(***************************************************************************)
(* The inputs the environment supplies.                                    *)
(***************************************************************************)
\* Country and city names of the input document (city is optional).
Countries == { <<"R">>, EmptyStr }

Cities == { <<"B">>, EmptyStr }

Locations == [Country : Countries, City : Cities]

NoLocation == [Country |-> EmptyStr, City |-> EmptyStr]

\* The locations of the driver's input document.
DriverLocations ==
    { [Country |-> <<"R">>, City |-> <<"B">>],
      [Country |-> <<"R">>, City |-> EmptyStr] }

\* The lines the region query may print, case as returned.
RegionLines == { <<"r", "-", "b">>, <<"r">>, <<"R">>, EmptyStr }

RECURSIVE JoinLines(_)
JoinLines(lines) ==
    IF lines = << >> THEN EmptyStr
    ELSE IF Len(lines) = 1 THEN Head(lines)
    ELSE Head(lines) \o <<"\n">> \o JoinLines(Tail(lines))

RegionListings ==
    UNION { [1..n -> RegionLines] : n \in 0..MaxLines }

\* Runs of "expressvpnctl get regions": a failure (with nothing or with a
\* partial listing printed), or a listing printed with or without a final
\* newline.
RegionRuns ==
    { [err |-> TRUE, out |-> EmptyStr], [err |-> TRUE, out |-> <<"r", "\n">>] }
        \cup { [err |-> FALSE, out |-> JoinLines(l)] : l \in RegionListings }
        \cup { [err |-> FALSE, out |-> JoinLines(l) \o <<"\n">>] :
                   l \in RegionListings }

NoCommandOut == [err |-> FALSE, lines |-> << >>]

\* The connection states of the VPN client and what the state query prints.
VpnStates == {"Disconnected", "Connecting", "Connected"}

ConnectedText == <<"C", "o", "n", "n", "e", "c", "t", "e", "d">>

StateText(st) ==
    CASE st = "Connected"  -> ConnectedText
      [] st = "Connecting" -> <<"C", "o", "n", "n", "e", "c", "t", "i", "n", "g">>
      [] OTHER             -> <<"D", "i", "s", "c", "o", "n", "n", "e", "c", "t",
                                "e", "d">>

\* Runs of "expressvpnctl get connectionstate" while the client is in state
\* st: the state printed on a line and exit status zero, or a nonzero exit
\* status with the state printed or with nothing printed.
StateRuns(st) ==
    { [err |-> FALSE, out |-> StateText(st) \o <<"\n">>],
      [err |-> TRUE, out |-> StateText(st) \o <<"\n">>],
      [err |-> TRUE, out |-> EmptyStr] }

NoRun == [err |-> FALSE, out |-> EmptyStr]

\* Results the speed-measurement tool may report (latency in hundredths of
\* a millisecond, bandwidth in the tool's unit).
ToolResults ==
    { [Latency |-> 2550, Download |-> 125000000, Upload |-> 62500000,
       Host |-> "a.test", Country |-> "CA", Location |-> "LA", At |-> "t1"],
      [Latency |-> 1005, Download |-> 374999, Upload |-> 125000,
       Host |-> "b.test", Country |-> "CB", Location |-> "LB", At |-> "t2"] }

NoResult ==
    [Latency |-> 0, Download |-> 0, Upload |-> 0, Host |-> "", Country |-> "",
     Location |-> "", At |-> ""]

\* One run of "speedtest -f json-pretty": the command fails, its output does
\* not parse, or it yields a result.
SpeedTestOutcomes ==
    { [kind |-> "cmdfail", result |-> NoResult],
      [kind |-> "badjson", result |-> NoResult] }
        \cup { [kind |-> "ok", result |-> r] : r \in ToolResults }

SeriesMode == "Tests ran in series (one after another)"

ParallelMode == "Tests ran in parallel"

\* The quotient rounded to the nearest integer instead of cut off.
MbpsStringRounded(bandwidth) ==
    Itoa((2 * bandwidth + BandwidthPerMbps) \div (2 * BandwidthPerMbps))
        \o MbpsSuffix

(***************************************************************************)
(* Measurement samples and their aggregation.                              *)
(***************************************************************************)
\* fmt.Sprintf("%dMbps", bandwidth/125000)
MbpsString(bandwidth) == Itoa(bandwidth \div BandwidthPerMbps) \o MbpsSuffix

\* The VPNStat built from one tool result.
MakeStat(result, connectionTime, mode) ==
    [LocationName     |-> result.Country \o ", " \o result.Location,
     TimeToConnect    |-> connectionTime,
     VPNDownloadSpeed |-> MbpsString(result.Download),
     VPNUploadSpeed   |-> MbpsString(result.Upload),
     VPNLatency       |-> FormatHundredths(result.Latency) \o MsSuffix,
     Server           |-> result.Host,
     Timestamp        |-> result.At,
     Mode             |-> mode]

\* The zero VPNStat.
ZeroStat ==
    [LocationName |-> "", TimeToConnect |-> EmptyStr,
     VPNDownloadSpeed |-> EmptyStr, VPNUploadSpeed |-> EmptyStr,
     VPNLatency |-> EmptyStr, Server |-> "", Timestamp |-> "", Mode |-> ""]

\* The baseline string with the two figures in the other order.
BaselineStringSwapped(result) ==
    MbpsString(result.Upload) \o <<" ", "v", " ", " ">>
        \o MbpsString(result.Download) \o <<" ", "^">>

\* A Go string variable is two words, a pointer to the bytes and a length;
\* an assignment stores them one after the other.
StringHeader(s) == [data |-> s, len |-> Len(s)]

NoString == StringHeader(EmptyStr)

\* A byte of memory that lies behind the bytes of a string.
UnknownByte == "?"

\* The string a header denotes: len bytes starting at the pointer.
StringOf(hdr) ==
    IF hdr.len <= Len(hdr.data) THEN SubSeq(hdr.data, 1, hdr.len)
    ELSE hdr.data \o [i \in 1..(hdr.len - Len(hdr.data)) |-> UnknownByte]

\* fmt.Sprintf("%dMbps (down)  %dMbps (up)", ...): the baseline string.
BaselineString(result) ==
    MbpsString(result.Download) \o <<" ", "v", " ", " ">>
        \o MbpsString(result.Upload) \o <<" ", "^">>

\* The download figure parsed with its unit still attached.
DownloadOfUntrimmed(stat) == Atoi(stat.VPNDownloadSpeed)

DownloadOf(stat) == Atoi(TrimSuffix(stat.VPNDownloadSpeed, MbpsSuffix))

UploadOf(stat) == Atoi(TrimSuffix(stat.VPNUploadSpeed, MbpsSuffix))

RECURSIVE SumOf(_, _)
SumOf(stats, isDownload) ==
    IF stats = << >> THEN 0
    ELSE (IF isDownload THEN DownloadOf(Head(stats)) ELSE UploadOf(Head(stats)))
             + SumOf(Tail(stats), isDownload)

\* The first sample kept for the descriptive fields.
FirstSample(stats) == stats[1]

\* avgStat = stat in every iteration: the last sample of the iteration
\* order is the one kept.
LastSample(stats) == stats[Len(stats)]

\* The averaging loop and the final formatting, over the samples in
\* iteration order; only meaningful for a non-empty batch.
Average(stats) ==
    LET count == Len(stats)
        last  == LastSample(stats)
    IN  [last EXCEPT
           !.VPNDownloadSpeed =
               FormatHundredths(MeanHundredths(SumOf(stats, TRUE), count))
                   \o MbpsSuffix,
           !.VPNUploadSpeed =
               FormatHundredths(MeanHundredths(SumOf(stats, FALSE), count))
                   \o MbpsSuffix]

(***************************************************************************)
(* Result Store.                                                           *)
(***************************************************************************)
\* Results{}
EmptyResults ==
    [MachineName |-> "", OS |-> "", WithoutVPN |-> EmptyStr, VPNStats |-> << >>]

\* A name holding a byte that is not part of any UTF-8 sequence, and the
\* same name with that byte replaced by U+FFFD.
InvalidUTF8Name == "host<ff>"

CoercedName == "host<fffd>"

\* json.Marshal writes strings coerced to valid UTF-8.
ToValidUTF8(s) == IF s = InvalidUTF8Name THEN CoercedName ELSE s

\* The same for a string kept as a sequence of characters.
CoerceChars(s) ==
    IF s = EmptyStr THEN EmptyStr ELSE [i \in 1..Len(s) |-> ToValidUTF8(s[i])]

\* The JSON object of a VPNStat, keyed by the struct tags.
MarshalStat(stat) ==
    [LocationName     |-> ToValidUTF8(stat.LocationName),
     TimeToConnect    |-> CoerceChars(stat.TimeToConnect),
     VPNDownloadSpeed |-> CoerceChars(stat.VPNDownloadSpeed),
     VPNUploadSpeed   |-> CoerceChars(stat.VPNUploadSpeed),
     VPNLatency       |-> CoerceChars(stat.VPNLatency),
     Server           |-> ToValidUTF8(stat.Server),
     Mode             |-> ToValidUTF8(stat.Mode)]
        @@ ("Date/Time" :> ToValidUTF8(stat.Timestamp))

\* A decoding that finds no value for the Timestamp field.
UnmarshalStatByFieldName(obj) ==
    [LocationName     |-> obj.LocationName,
     TimeToConnect    |-> obj.TimeToConnect,
     VPNDownloadSpeed |-> obj.VPNDownloadSpeed,
     VPNUploadSpeed   |-> obj.VPNUploadSpeed,
     VPNLatency       |-> obj.VPNLatency,
     Server           |-> obj.Server,
     Timestamp        |-> "",
     Mode             |-> obj.Mode]

\* The VPNStat decoded from its JSON object.
UnmarshalStat(obj) ==
    [LocationName     |-> obj.LocationName,
     TimeToConnect    |-> obj.TimeToConnect,
     VPNDownloadSpeed |-> obj.VPNDownloadSpeed,
     VPNUploadSpeed   |-> obj.VPNUploadSpeed,
     VPNLatency       |-> obj.VPNLatency,
     Server           |-> obj.Server,
     Timestamp        |-> obj["Date/Time"],
     Mode             |-> obj.Mode]

\* json.MarshalIndent(data, "", "  ")
Marshal(data) ==
    [MachineName |-> ToValidUTF8(data.MachineName),
     OS          |-> ToValidUTF8(data.OS),
     WithoutVPN  |-> CoerceChars(data.WithoutVPN),
     VPNStats    |-> IF data.VPNStats = << >> THEN << >>
                     ELSE [i \in 1..Len(data.VPNStats) |->
                               MarshalStat(data.VPNStats[i])]]

\* json.Unmarshal(file, &data) of a complete document.
Unmarshal(obj) ==
    [MachineName |-> obj.MachineName,
     OS          |-> obj.OS,
     WithoutVPN  |-> obj.WithoutVPN,
     VPNStats    |-> IF obj.VPNStats = << >> THEN << >>
                     ELSE [i \in 1..Len(obj.VPNStats) |->
                               UnmarshalStat(obj.VPNStats[i])]]

\* The results file: absent, holding a complete JSON document, or holding
\* a truncated or partial one.
NoFile == [kind |-> "absent", data |-> Marshal(EmptyResults)]

TornFile == [kind |-> "torn", data |-> Marshal(EmptyResults)]

DocFile(data) == [kind |-> "doc", data |-> Marshal(data)]

\* A loadFromFile that reports a missing file as an error.
loadFromFileStrict(f, readFails) ==
    IF f.kind = "absent" \/ readFails \/ f.kind = "torn"
    THEN [err |-> TRUE, data |-> EmptyResults]
    ELSE [err |-> FALSE, data |-> Unmarshal(f.data)]

\* A loadFromFile that answers every failure with the empty document.
loadFromFileIgnoringErrors(f, readFails) ==
    IF f.kind = "doc" /\ ~readFails
    THEN [err |-> FALSE, data |-> Unmarshal(f.data)]
    ELSE [err |-> FALSE, data |-> EmptyResults]

\* loadFromFile: readFails is a read error other than "does not exist".
loadFromFile(f, readFails) ==
    IF f.kind = "absent" THEN [err |-> FALSE, data |-> EmptyResults]
    ELSE IF readFails \/ f.kind = "torn" THEN [err |-> TRUE, data |-> EmptyResults]
    ELSE [err |-> FALSE, data |-> Unmarshal(f.data)]

\* saveToFile: os.WriteFile succeeds, fails before touching the file, or
\* fails after truncating it.
SaveOutcomes == {"ok", "denied", "torn"}

saveToFile(data, f, outcome) ==
    CASE outcome = "ok"     -> [err |-> FALSE, file |-> DocFile(data)]
      [] outcome = "denied" -> [err |-> TRUE, file |-> f]
      [] OTHER              -> [err |-> TRUE, file |-> TornFile]

\* The new stat put in front of the others.
PrependStat(stats, stat) == <<stat>> \o stats

\* data.VPNStats = append(data.VPNStats, newStats)
AppendStat(stats, stat) == Append(stats, stat)

\* What the environment does during one writeToFile call: the file read,
\* os.Hostname, GetOSVersion (which indexes the split output of lsb_release
\* and panics when it has no colon) and the file write.
WriteEnvs ==
    [readFails : BOOLEAN, hostErr : BOOLEAN, hostname : {"pc", ""},
     osPanics : BOOLEAN, save : SaveOutcomes]

OSString == "linux: Ubuntu 22.04"

\* writeToFile: the file afterwards, how the call ended, and whether the
\* branch that fills in the machine identity was entered.
writeToFile(f, newStats, baseline, env) ==
    LET loaded == loadFromFile(f, env.readFails)
        fresh  == loaded.data.MachineName = ""
    IN  IF loaded.err
        THEN [file |-> f, outcome |-> "loadError", populated |-> FALSE]
        ELSE IF fresh /\ env.hostErr
        THEN [file |-> f, outcome |-> "hostnameError", populated |-> TRUE]
        ELSE IF fresh /\ env.osPanics
        THEN [file |-> f, outcome |-> "panic", populated |-> TRUE]
        ELSE LET data  == IF fresh
                          THEN [MachineName |-> env.hostname,
                                OS          |-> OSString,
                                WithoutVPN  |-> baseline,
                                VPNStats    |-> << >>]
                          ELSE loaded.data
                 data2 == [data EXCEPT !.VPNStats = AppendStat(@, newStats)]
                 saved == saveToFile(data2, f, env.save)
             IN  [file      |-> saved.file,
                  outcome   |-> IF saved.err THEN "saveError" ELSE "saved",
                  populated |-> fresh]

(***************************************************************************)
(* State.                                                                  *)
(***************************************************************************)
VARIABLES
    singleThreaded,   \* the -s flag
    speedTestCount,   \* package variable speedTestCount, after flag parsing
    nLocs,            \* len(input.Locations)
    pc,               \* where main is
    idx,              \* locations taken from the input so far
    location,         \* the loop variable of main
    commandOut,       \* findRegion: what getCommandOutput returned
    region,           \* main: the resolved region token
    vpnState,         \* the VPN client's connection state
    machine,          \* the host's name, "?" until first looked up
    polls,            \* waitForConnection: sleeps so far
    stateRun,         \* waitForConnection: result of the last state query
    connectionTime,   \* the batch's connection tag ("" for the baseline)
    counter,          \* speedTest: loop counter
    vpnStats,         \* speedTest: samples collected
    launched,         \* runParallelSpeedTests: goroutines started
    gpc,              \* where each measurement goroutine is
    gres,             \* each goroutine's parsed result
    wg,               \* the WaitGroup counter
    resultsChan,      \* the buffered channel's content
    chanClosed,       \* whether resultsChan is closed
    avgStat,          \* the stat handed to writeToFile
    speedWithoutVPN,  \* package variable speedWithoutVPN
    file,             \* the results file
    fileMutex,        \* whether fileMutex is locked
    document,         \* a Results document in memory
    loadResult,       \* what loadFromFile returned
    h                 \* what has happened for the current location

vars ==
    <<singleThreaded, speedTestCount, nLocs, pc, idx, location, commandOut,
      region, vpnState, machine, polls, stateRun, connectionTime,
      counter, vpnStats, launched, gpc, gres, wg, resultsChan, chanClosed,
      avgStat, speedWithoutVPN, file, fileMutex, document, loadResult, h>>

inputVars == <<singleThreaded, speedTestCount, nLocs>>

resolveVars == <<location, commandOut, region>>

vpnVars == <<vpnState>>

pollVars == <<polls, stateRun>>

seriesVars == <<counter, vpnStats>>

parallelVars == <<launched, gpc, gres, wg, resultsChan, chanClosed>>

storeLocals == <<fileMutex, document, loadResult>>

storeVars == <<avgStat, speedWithoutVPN, file, machine, storeLocals>>

\* No loadFromFile call has returned.
NotLoaded == [err |-> FALSE, data |-> EmptyResults]

Goroutines == 1..MaxCount

\* Nothing has happened yet for the location the loop is about to take.
NoHistory ==
    [resolved |-> FALSE, queryFailed |-> FALSE, regionEmpty |-> FALSE,
     connects |-> 0, connectFailed |-> FALSE, queries |-> 0,
     observed |-> FALSE, started |-> 0, ended |-> 0, failed |-> 0,
     sent |-> 0, received |-> 0, disconnects |-> 0, write |-> "none",
     elapsedMs |-> 0, okDown |-> 0, okUp |-> 0, readFailed |-> FALSE,
     populated |-> FALSE, lastOk |-> NoResult]

Init ==
    /\ singleThreaded \in BOOLEAN
    /\ speedTestCount \in 1..MaxCount
    /\ nLocs \in 0..MaxLocs
    /\ pc = "baseline"
    /\ idx = 0
    /\ location = NoLocation
    /\ commandOut = NoCommandOut
    /\ region = EmptyStr
    /\ vpnState = "Disconnected"
    /\ machine = "?"
    /\ polls = 0
    /\ stateRun = NoRun
    /\ connectionTime = EmptyStr
    /\ counter = 0
    /\ vpnStats = << >>
    /\ launched = 0
    /\ gpc = [g \in Goroutines |-> "idle"]
    /\ gres = [g \in Goroutines |-> NoResult]
    /\ wg = 0
    /\ resultsChan = << >>
    /\ chanClosed = FALSE
    /\ avgStat = ZeroStat
    /\ speedWithoutVPN = NoString
    /\ file = NoFile
    /\ fileMutex = FALSE
    /\ document = EmptyResults
    /\ loadResult = NotLoaded
    /\ h = NoHistory

(***************************************************************************)
(* main.                                                                   *)
(***************************************************************************)
\* The call of speedTest or runParallelSpeedTests with the given tag.
StartBatch(tag) ==
    /\ connectionTime' = tag
    /\ IF singleThreaded
       THEN /\ pc' = "s_loop"
            /\ counter' = 0
            /\ vpnStats' = << >>
            /\ UNCHANGED parallelVars
       ELSE /\ pc' = "p_launch"
            /\ launched' = 0
            /\ gpc' = [g \in Goroutines |-> "idle"]
            /\ gres' = [g \in Goroutines |-> NoResult]
            /\ wg' = 0
            /\ resultsChan' = << >>
            /\ chanClosed' = FALSE
            /\ UNCHANGED seriesVars

\* Where main continues when the batch function returns: the baseline batch
\* is followed by the loop, a VPN batch by disconnectVPN.
BatchReturnPc == IF connectionTime = EmptyStr THEN "loop" ELSE "disconnect"

\* The baseline batch, run with no VPN connection.
Baseline ==
    /\ pc = "baseline"
    /\ StartBatch(EmptyStr)
    /\ UNCHANGED <<inputVars, idx, resolveVars, vpnVars, pollVars, storeVars, h>>

\* for _, location := range input.Locations
Loop ==
    /\ pc = "loop"
    /\ IF idx < nLocs
       THEN /\ \E loc \in DriverLocations : location' = loc
            /\ idx' = idx + 1
            /\ pc' = "findRegion"
       ELSE /\ pc' = "done"
            /\ UNCHANGED <<location, idx>>
    /\ h' = NoHistory
    /\ UNCHANGED <<inputVars, commandOut, region, vpnVars, pollVars,
                   connectionTime, seriesVars, parallelVars, storeVars>>

\* region := findRegion(location), the region query running as one of runs.
ResolveAgainst(runs) ==
    /\ pc = "findRegion"
    /\ \E run \in runs :
          LET out == getCommandOutput(run)
              tok == findRegion(location, out)
          IN  /\ commandOut' = out
              /\ region' = tok
              /\ h' = [h EXCEPT !.resolved = TRUE,
                                !.queryFailed = run.err,
                                !.regionEmpty = (tok = EmptyStr)]
    /\ pc' = "checkRegion"
    /\ UNCHANGED <<inputVars, idx, location, vpnVars, pollVars, connectionTime,
                   seriesVars, parallelVars, storeVars>>

\* The driver's runs of the region query: a failure, and listings for each
\* way a location resolves.
DriverRegionRuns ==
    { [err |-> TRUE, out |-> EmptyStr],
      [err |-> TRUE, out |-> <<"r", "\n">>],
      [err |-> FALSE, out |-> <<"r", "-", "b", "\n">>],
      [err |-> FALSE, out |-> <<"r">>],
      [err |-> FALSE, out |-> <<"R", "\n">>] }

CallFindRegion == ResolveAgainst(DriverRegionRuns)

\* The skip of an unresolved location left out.
AfterFindRegionNoSkip(tok) == "connect"

\* if region == "" { log; continue }
AfterFindRegionPc(tok) == IF tok = EmptyStr THEN "loop" ELSE "connect"

CheckRegion ==
    /\ pc = "checkRegion"
    /\ pc' = AfterFindRegionPc(region)
    /\ location' = NoLocation
    /\ commandOut' = NoCommandOut
    /\ UNCHANGED <<inputVars, idx, region, vpnVars, pollVars, connectionTime,
                   seriesVars, parallelVars, storeVars, h>>

(***************************************************************************)
(* Connection Lifecycle Manager.                                           *)
(***************************************************************************)
\* The connect error ignored: control falls into waitForConnection.
AfterConnectErrorIgnored == "poll"

\* Where control goes when "expressvpnctl connect" exits nonzero:
\* connectToVPN returns the error and main continues with the next location.
AfterConnectErrorPc == "loop"

\* connectToVPN up to the call of waitForConnection, and main's error check.
ConnectCmd ==
    /\ pc = "connect"
    /\ \/ /\ pc' = AfterConnectErrorPc
          /\ h' = [h EXCEPT !.connects = @ + 1, !.connectFailed = TRUE]
          /\ UNCHANGED <<vpnVars, polls>>
       \/ /\ \E st \in {"Connecting", "Connected"} : vpnState' = st
          /\ pc' = "poll"
          /\ polls' = 0
          /\ h' = [h EXCEPT !.connects = @ + 1]
    /\ UNCHANGED <<inputVars, idx, resolveVars, stateRun, connectionTime,
                   seriesVars, parallelVars, storeVars>>

\* The VPN client completes a connection attempt.
VpnEstablish ==
    /\ vpnState = "Connecting"
    /\ vpnState' = "Connected"
    /\ UNCHANGED <<inputVars, pc, idx, resolveVars, pollVars, connectionTime, seriesVars, parallelVars, storeVars, h>>

\* waitForConnection: one run of the state query.
PollQuery ==
    /\ pc = "poll"
    /\ \E run \in StateRuns(vpnState) : stateRun' = run
    /\ pc' = "pollCheck"
    /\ h' = [h EXCEPT !.queries = @ + 1]
    /\ UNCHANGED <<inputVars, idx, resolveVars, vpnVars, polls, connectionTime,
                   seriesVars, parallelVars, storeVars>>

\* The exit status of the state query not looked at.
IsConnectedIgnoringErr(run) == TrimSpace(run.out) = ConnectedText

\* err == nil && strings.TrimSpace(out.String()) == "Connected"
IsConnected(run) == ~run.err /\ TrimSpace(run.out) = ConnectedText

\* The loop left after an unsuccessful query, as a retry limit or a
\* deadline would do.
PollGivesUpPc == "loop"

\* time.Sleep(500 * time.Millisecond) and the next iteration of the for
\* loop, which has no condition and no break.
PollAgainPc == "poll"

\* waitForConnection: return, or sleep and poll again.
PollCheck ==
    /\ pc = "pollCheck"
    /\ IF IsConnected(stateRun)
       THEN /\ pc' = "connected"
            /\ h' = [h EXCEPT !.observed = TRUE,
                              !.elapsedMs = PollIntervalMs * polls]
            /\ UNCHANGED polls
       ELSE /\ polls < MaxPolls
            /\ polls' = polls + 1
            /\ pc' = PollAgainPc
            /\ UNCHANGED h
    /\ UNCHANGED <<inputVars, idx, resolveVars, vpnVars, stateRun,
                   connectionTime, seriesVars, parallelVars, storeVars>>

\* The tag of a batch that always reads as no time elapsed.
ConnectionTagZero(elapsedMs) == DurationString(0)

\* connectionTime.String()
ConnectionTag(elapsedMs) == DurationString(elapsedMs)

\* connectToVPN returns the elapsed time; main starts the VPN batch with
\* connectTime.String() as its tag.
StartVpnBatch ==
    /\ pc = "connected"
    /\ StartBatch(ConnectionTag(PollIntervalMs * polls))
    /\ polls' = 0
    /\ stateRun' = NoRun
    /\ UNCHANGED <<inputVars, idx, resolveVars, vpnVars, storeVars, h>>

\* disconnectVPN: the command is run once and its error is dropped by main.
Disconnect ==
    /\ pc = "disconnect"
    /\ \/ vpnState' = "Disconnected"
       \/ UNCHANGED vpnState
    /\ pc' = "loop"
    /\ connectionTime' = EmptyStr
    /\ h' = [h EXCEPT !.disconnects = @ + 1]
    /\ UNCHANGED <<inputVars, idx, resolveVars, pollVars, seriesVars,
                   parallelVars, storeVars>>

(***************************************************************************)
(* Measurement Executor, series mode (speedTest).                          *)
(***************************************************************************)
\* for range speedTestCount: start the next invocation, or leave the loop.
SeriesNext ==
    /\ pc = "s_loop"
    /\ IF counter < speedTestCount
       THEN /\ counter' = counter + 1
            /\ pc' = "s_run"
            /\ h' = [h EXCEPT !.started = @ + 1]
       ELSE /\ pc' = "s_avg"
            /\ UNCHANGED <<counter, h>>
    /\ UNCHANGED <<inputVars, idx, resolveVars, vpnVars, pollVars,
                   connectionTime, vpnStats, parallelVars, storeVars>>

\* A batch that never takes itself for the baseline.
IsBaselineNever(tag) == FALSE

\* if connectionTime == "": the batch is the baseline; its measurement
\* goes to speedWithoutVPN and no sample is kept.
IsBaseline(tag) == tag = EmptyStr

\* A failed invocation followed by the next one (continue for return).
SeriesFailureContinues == "s_loop"

\* A failed invocation that only ends the loop (break for return): the
\* samples collected so far are averaged.
SeriesFailureBreaks == "s_avg"

\* Where speedTest goes when an invocation fails or its output does not
\* parse: it returns.
SeriesFailurePc == BatchReturnPc

\* The invocation in flight terminates; when speedTest returns, its locals
\* end.
SeriesResult ==
    /\ pc = "s_run"
    /\ \E o \in SpeedTestOutcomes :
          IF o.kind # "ok"
          THEN /\ pc' = SeriesFailurePc
               /\ h' = [h EXCEPT !.ended = @ + 1, !.failed = @ + 1]
               /\ IF SeriesFailurePc = BatchReturnPc
                  THEN /\ counter' = 0
                       /\ vpnStats' = << >>
                  ELSE UNCHANGED <<counter, vpnStats>>
               /\ UNCHANGED speedWithoutVPN
          ELSE /\ pc' = "s_loop"
               /\ h' = IF connectionTime = EmptyStr
                        THEN [h EXCEPT !.ended = @ + 1, !.lastOk = o.result]
                        ELSE [h EXCEPT
                                !.ended = @ + 1,
                                !.okDown = @ + (o.result.Download
                                                  \div BandwidthPerMbps),
                                !.okUp = @ + (o.result.Upload
                                                \div BandwidthPerMbps)]
               /\ IF IsBaseline(connectionTime)
                  THEN /\ speedWithoutVPN' = StringHeader(BaselineString(o.result))
                       /\ UNCHANGED vpnStats
                  ELSE /\ vpnStats' =
                              Append(vpnStats,
                                     MakeStat(o.result, connectionTime, SeriesMode))
                       /\ UNCHANGED speedWithoutVPN
               /\ UNCHANGED counter
    /\ UNCHANGED <<inputVars, idx, resolveVars, vpnVars, pollVars,
                   connectionTime, parallelVars, avgStat, file, machine,
                   storeLocals>>

\* The averaging loop and the call of writeToFile when count > 0; the
\* function's locals end with it.
SeriesAverage ==
    /\ pc = "s_avg"
    /\ IF Len(vpnStats) > 0
       THEN /\ avgStat' = Average(vpnStats)
            /\ pc' = "write"
       ELSE /\ pc' = BatchReturnPc
            /\ UNCHANGED avgStat
    /\ counter' = 0
    /\ vpnStats' = << >>
    /\ UNCHANGED <<inputVars, idx, resolveVars, vpnVars, pollVars,
                   connectionTime, parallelVars, speedWithoutVPN, file,
                   machine, storeLocals, h>>

(***************************************************************************)
(* Measurement Executor, parallel mode (runParallelSpeedTests).            *)
(***************************************************************************)
\* A channel with no buffer: a send waits for a receiver.
ChanUnbuffered(count) == 0

\* make(chan VPNStat, speedTestCount): the number of samples the channel
\* holds before a send blocks.
ChanCapacity(count) == count

\* The WaitGroup counter not raised.
WgAddSkipped(w) == w

\* wg.Add(1)
WgAdd(w) == w + 1

\* for range speedTestCount { wg.Add(1); go func() {...}() }
Launch ==
    /\ pc = "p_launch"
    /\ IF launched < speedTestCount
       THEN /\ launched' = launched + 1
            /\ wg' = WgAdd(wg)
            /\ gpc' = [gpc EXCEPT ![launched + 1] = "run"]
            /\ h' = [h EXCEPT !.started = @ + 1]
            /\ UNCHANGED pc
       ELSE /\ pc' = "p_wait"
            /\ UNCHANGED <<launched, wg, gpc, h>>
    /\ UNCHANGED <<inputVars, idx, resolveVars, vpnVars, pollVars,
                   connectionTime, seriesVars, gres, resultsChan, chanClosed,
                   storeVars>>

\* Goroutine g: its invocation terminates; on failure the goroutine returns
\* and the deferred wg.Done runs.
GoResult(g) ==
    /\ pc # "panicked"
    /\ gpc[g] = "run"
    /\ \E o \in SpeedTestOutcomes :
          IF o.kind # "ok"
          THEN /\ gpc' = [gpc EXCEPT ![g] = "done"]
               /\ wg' = wg - 1
               /\ h' = [h EXCEPT !.ended = @ + 1, !.failed = @ + 1]
               /\ UNCHANGED gres
          ELSE /\ gpc' = [gpc EXCEPT ![g] = "publish"]
               /\ gres' = [gres EXCEPT ![g] = o.result]
               /\ h' = IF connectionTime = EmptyStr
                        THEN [h EXCEPT !.ended = @ + 1]
                        ELSE [h EXCEPT
                                !.ended = @ + 1,
                                !.okDown = @ + (o.result.Download
                                                  \div BandwidthPerMbps),
                                !.okUp = @ + (o.result.Upload
                                                \div BandwidthPerMbps)]
               /\ UNCHANGED wg
    /\ UNCHANGED <<inputVars, pc, idx, resolveVars, vpnVars, pollVars,
                   connectionTime, seriesVars, launched, resultsChan,
                   chanClosed, storeVars>>

\* Goroutine g: the baseline batch writes speedWithoutVPN, a VPN batch sends
\* its sample on resultsChan (a send on a closed channel panics; a send on a
\* full channel blocks).
GoPublish(g) ==
    /\ pc # "panicked"
    /\ gpc[g] = "publish"
    /\ IF IsBaseline(connectionTime)
       THEN /\ speedWithoutVPN' =
                   [speedWithoutVPN EXCEPT !.data = BaselineString(gres[g])]
            /\ gpc' = [gpc EXCEPT ![g] = "storeLen"]
            /\ UNCHANGED <<pc, gres, resultsChan, h>>
       ELSE IF chanClosed
       THEN /\ pc' = "panicked"
            /\ UNCHANGED <<speedWithoutVPN, gpc, gres, resultsChan, h>>
       ELSE /\ Len(resultsChan) < ChanCapacity(speedTestCount)
            /\ resultsChan' =
                   Append(resultsChan,
                          MakeStat(gres[g], connectionTime, ParallelMode))
            /\ gpc' = [gpc EXCEPT ![g] = "exit"]
            /\ gres' = [gres EXCEPT ![g] = NoResult]
            /\ h' = [h EXCEPT !.sent = @ + 1]
            /\ UNCHANGED <<pc, speedWithoutVPN>>
    /\ UNCHANGED <<inputVars, idx, resolveVars, vpnVars, pollVars,
                   connectionTime, seriesVars, launched, wg, chanClosed,
                   avgStat, file, machine, storeLocals>>

\* Goroutine g, baseline batch: the second word of the assignment to
\* speedWithoutVPN. Nothing orders the two stores of one goroutine against
\* those of another.
GoStoreLen(g) ==
    /\ pc # "panicked"
    /\ gpc[g] = "storeLen"
    /\ speedWithoutVPN' =
           [speedWithoutVPN EXCEPT !.len = Len(BaselineString(gres[g]))]
    /\ gpc' = [gpc EXCEPT ![g] = "exit"]
    /\ gres' = [gres EXCEPT ![g] = NoResult]
    /\ UNCHANGED <<inputVars, pc, idx, resolveVars, vpnVars, pollVars,
                   connectionTime, seriesVars, launched, wg, resultsChan,
                   chanClosed, avgStat, file, machine, storeLocals, h>>

\* Goroutine g returns: the deferred wg.Done.
GoExit(g) ==
    /\ pc # "panicked"
    /\ gpc[g] = "exit"
    /\ gpc' = [gpc EXCEPT ![g] = "done"]
    /\ wg' = wg - 1
    /\ UNCHANGED <<inputVars, pc, idx, resolveVars, vpnVars, pollVars,
                   connectionTime, seriesVars, launched, gres, resultsChan,
                   chanClosed, storeVars, h>>

\* wg.Wait() not waiting.
WaitReturnsAtOnce == TRUE

\* wg.Wait() returns when the counter is zero.
WaitReturns == wg = 0

WgWait ==
    /\ pc = "p_wait"
    /\ WaitReturns
    /\ pc' = "p_close"
    /\ UNCHANGED <<inputVars, idx, resolveVars, vpnVars, pollVars,
                   connectionTime, seriesVars, parallelVars, storeVars, h>>

\* close(resultsChan)
CloseChan ==
    /\ pc = "p_close"
    /\ chanClosed' = TRUE
    /\ pc' = "p_drain"
    /\ UNCHANGED <<inputVars, idx, resolveVars, vpnVars, pollVars,
                   connectionTime, seriesVars, launched, gpc, gres, wg,
                   resultsChan, storeVars, h>>

\* for stat := range resultsChan: the closed channel is read until empty,
\* then the average is formed and writeToFile called when count > 0.
Drain ==
    /\ pc = "p_drain"
    /\ IF Len(resultsChan) > 0
       THEN /\ avgStat' = Average(resultsChan)
            /\ pc' = "write"
       ELSE /\ pc' = BatchReturnPc
            /\ UNCHANGED avgStat
    /\ resultsChan' = << >>
    /\ h' = [h EXCEPT !.received = @ + Len(resultsChan)]
    /\ UNCHANGED <<inputVars, idx, resolveVars, vpnVars, pollVars,
                   connectionTime, seriesVars, launched, gpc, gres, wg,
                   chanClosed, speedWithoutVPN, file, machine, storeLocals>>

(***************************************************************************)
(* The call of writeToFile.                                                *)
(***************************************************************************)
\* fileMutex.Lock(): the caller proceeds when the mutex is free.
WriteLock ==
    /\ pc = "write"
    /\ ~fileMutex
    /\ fileMutex' = TRUE
    /\ pc' = "writing"
    /\ UNCHANGED <<inputVars, idx, resolveVars, vpnVars, pollVars,
                   connectionTime, seriesVars, parallelVars, avgStat,
                   speedWithoutVPN, file, machine, document, loadResult, h>>

\* The mutex left locked when the call ends without a saved document.
MutexKeptOnError(outcome) == outcome # "saved"

\* defer fileMutex.Unlock(): the mutex is released however the call ends.
MutexAfterReturn(outcome) == FALSE

\* The body of writeToFile under the mutex, and its return.
WriteToFile ==
    /\ pc = "writing"
    /\ \E env \in WriteEnvs :
          /\ machine \in {"?", env.hostname}
          /\ LET r == writeToFile(file, avgStat, StringOf(speedWithoutVPN), env)
             IN  /\ file' = r.file
                 /\ machine' = env.hostname
                 /\ fileMutex' = MutexAfterReturn(r.outcome)
                 /\ h' = [h EXCEPT !.write = r.outcome,
                                   !.readFailed =
                                       env.readFails /\ file.kind # "absent",
                                   !.populated = r.populated]
                 /\ pc' = IF r.outcome = "panic" THEN "panicked"
                                                   ELSE BatchReturnPc
    /\ avgStat' = ZeroStat
    /\ UNCHANGED <<inputVars, idx, resolveVars, vpnVars, pollVars,
                   connectionTime, seriesVars, parallelVars, speedWithoutVPN,
                   document, loadResult>>

(***************************************************************************)
(* The program.  A process that panicked takes no further step: no action  *)
(* of main is enabled at pc = "panicked" and the goroutines stop with it.  *)
(***************************************************************************)
Next ==
    \/ Baseline
    \/ Loop
    \/ CallFindRegion
    \/ CheckRegion
    \/ ConnectCmd
    \/ VpnEstablish
    \/ PollQuery
    \/ PollCheck
    \/ StartVpnBatch
    \/ Disconnect
    \/ SeriesNext
    \/ SeriesResult
    \/ SeriesAverage
    \/ Launch
    \/ \E g \in Goroutines : GoResult(g)
    \/ \E g \in Goroutines : GoPublish(g)
    \/ \E g \in Goroutines : GoStoreLen(g)
    \/ \E g \in Goroutines : GoExit(g)
    \/ WgWait
    \/ CloseChan
    \/ Drain
    \/ WriteLock
    \/ WriteToFile

Spec == Init /\ [][Next]_vars

(***************************************************************************)
(* The Region Resolver on its own: findRegion called for any location of   *)
(* the input, against any output of the region query.                      *)
(***************************************************************************)
ResolverInit ==
    /\ singleThreaded = TRUE
    /\ speedTestCount = 1
    /\ nLocs = 1
    /\ pc = "findRegion"
    /\ idx = 1
    /\ location \in Locations
    /\ commandOut = NoCommandOut
    /\ region = EmptyStr
    /\ vpnState = "Disconnected"
    /\ machine = "?"
    /\ polls = 0
    /\ stateRun = NoRun
    /\ connectionTime = EmptyStr
    /\ counter = 0
    /\ vpnStats = << >>
    /\ launched = 0
    /\ gpc = [g \in Goroutines |-> "idle"]
    /\ gres = [g \in Goroutines |-> NoResult]
    /\ wg = 0
    /\ resultsChan = << >>
    /\ chanClosed = FALSE
    /\ avgStat = ZeroStat
    /\ speedWithoutVPN = NoString
    /\ file = NoFile
    /\ fileMutex = FALSE
    /\ document = EmptyResults
    /\ loadResult = NotLoaded
    /\ h = NoHistory

ResolverNext ==
    \/ ResolveAgainst(RegionRuns)
    \/ CheckRegion

ResolverSpec == ResolverInit /\ [][ResolverNext]_vars

(***************************************************************************)
(* The averaging on its own: speedTest and runParallelSpeedTests from the  *)
(* point where the samples of a batch are complete, for any batch.         *)
(***************************************************************************)
\* Tool results of 100, 200 and 300 Mbps down and 1, 2 and 2 Mbps up.
AggregatorResults ==
    { [Latency |-> 2550, Download |-> 12500000, Upload |-> 125000,
       Host |-> "a.test", Country |-> "CA", Location |-> "LA", At |-> "t1"],
      [Latency |-> 1005, Download |-> 25000000, Upload |-> 250000,
       Host |-> "b.test", Country |-> "CB", Location |-> "LB", At |-> "t2"],
      [Latency |-> 990, Download |-> 37500000, Upload |-> 312499,
       Host |-> "c.test", Country |-> "CC", Location |-> "LC", At |-> "t3"] }

AggregatorBatches == UNION { [1..n -> AggregatorResults] : n \in 0..MaxBatch }

RECURSIVE SumMbps(_, _)
SumMbps(results, isDownload) ==
    IF results = << >> THEN 0
    ELSE ((IF isDownload THEN Head(results).Download ELSE Head(results).Upload)
              \div BandwidthPerMbps)
             + SumMbps(Tail(results), isDownload)

\* The history of a location that is connected and whose batch launched
\* count invocations, of which those of results succeeded.
BatchHistory(count, results) ==
    [NoHistory EXCEPT !.resolved = TRUE, !.connects = 1, !.queries = 2,
                      !.observed = TRUE, !.elapsedMs = PollIntervalMs,
                      !.started = count, !.ended = count,
                      !.failed = count - Len(results),
                      !.okDown = SumMbps(results, TRUE),
                      !.okUp = SumMbps(results, FALSE)]

\* A VPN batch of the first location, connected after one sleep.
InVpnBatch ==
    /\ idx = 1
    /\ region = <<"r">>
    /\ vpnState = "Connected"
    /\ connectionTime = ConnectionTag(PollIntervalMs)

AggregatorInit ==
    /\ nLocs = 1
    /\ location = NoLocation
    /\ commandOut = NoCommandOut
    /\ machine = "?"
    /\ polls = 0
    /\ stateRun = NoRun
    /\ avgStat = ZeroStat
    /\ speedWithoutVPN = NoString
    /\ file = NoFile
    /\ fileMutex = FALSE
    /\ document = EmptyResults
    /\ loadResult = NotLoaded
    /\ \E results \in AggregatorBatches :
          \/ /\ singleThreaded = TRUE
             /\ results = << >>
             /\ idx = 0
             /\ region = EmptyStr
             /\ vpnState = "Disconnected"
             /\ connectionTime = EmptyStr
             /\ speedTestCount \in 1..MaxBatch
             /\ pc = "s_avg"
             /\ counter = speedTestCount
             /\ vpnStats = << >>
             /\ launched = 0
             /\ gpc = [g \in Goroutines |-> "idle"]
             /\ gres = [g \in Goroutines |-> NoResult]
             /\ wg = 0
             /\ resultsChan = << >>
             /\ chanClosed = FALSE
             /\ h = [NoHistory EXCEPT !.started = speedTestCount,
                                      !.ended = speedTestCount]
          \/ /\ singleThreaded = TRUE
             /\ Len(results) > 0
             /\ InVpnBatch
             /\ speedTestCount = Len(results)
             /\ pc = "s_avg"
             /\ counter = speedTestCount
             /\ vpnStats = [i \in 1..Len(results) |->
                                MakeStat(results[i], connectionTime, SeriesMode)]
             /\ launched = 0
             /\ gpc = [g \in Goroutines |-> "idle"]
             /\ gres = [g \in Goroutines |-> NoResult]
             /\ wg = 0
             /\ resultsChan = << >>
             /\ chanClosed = FALSE
             /\ h = BatchHistory(speedTestCount, results)
          \/ /\ singleThreaded = FALSE
             /\ InVpnBatch
             /\ speedTestCount \in 1..MaxBatch
             /\ Len(results) <= speedTestCount
             /\ pc = "p_drain"
             /\ counter = 0
             /\ vpnStats = << >>
             /\ launched = speedTestCount
             /\ gpc = [g \in 1..speedTestCount |-> "done"]
             /\ gres = [g \in 1..speedTestCount |-> NoResult]
             /\ wg = 0
             /\ resultsChan =
                    IF results = << >> THEN << >>
                    ELSE [i \in 1..Len(results) |->
                              MakeStat(results[i], connectionTime, ParallelMode)]
             /\ chanClosed = TRUE
             /\ h = [BatchHistory(speedTestCount, results)
                       EXCEPT !.sent = Len(results)]

AggregatorNext ==
    \/ SeriesAverage
    \/ Drain
    \/ WriteLock
    \/ WriteToFile

AggregatorSpec == AggregatorInit /\ [][AggregatorNext]_vars

(***************************************************************************)
(* The file functions on their own: saveToFile and loadFromFile called     *)
(* with any document, on any state of the file.                            *)
(***************************************************************************)
StoreStats ==
    { MakeStat(r, ConnectionTag(PollIntervalMs), ParallelMode) :
          r \in ToolResults }

Documents ==
    [MachineName : {"pc", "", InvalidUTF8Name},
     OS          : {OSString, ""},
     WithoutVPN  : {EmptyStr} \cup {BaselineString(r) : r \in ToolResults},
     VPNStats    : UNION { [1..n -> StoreStats] : n \in 0..MaxStats }]

StoreFiles ==
    {NoFile, TornFile}
        \cup { DocFile([MachineName |-> "pc", OS |-> OSString,
                        WithoutVPN |-> EmptyStr, VPNStats |-> <<st>>]) :
                   st \in StoreStats }

StoreInit ==
    /\ singleThreaded = TRUE
    /\ speedTestCount = 1
    /\ nLocs = 0
    /\ pc = "store"
    /\ idx = 0
    /\ location = NoLocation
    /\ commandOut = NoCommandOut
    /\ region = EmptyStr
    /\ vpnState = "Disconnected"
    /\ machine = "?"
    /\ polls = 0
    /\ stateRun = NoRun
    /\ connectionTime = EmptyStr
    /\ counter = 0
    /\ vpnStats = << >>
    /\ launched = 0
    /\ gpc = [g \in Goroutines |-> "idle"]
    /\ gres = [g \in Goroutines |-> NoResult]
    /\ wg = 0
    /\ resultsChan = << >>
    /\ chanClosed = FALSE
    /\ avgStat = ZeroStat
    /\ speedWithoutVPN = NoString
    /\ file \in StoreFiles
    /\ fileMutex = FALSE
    /\ document \in Documents
    /\ loadResult = NotLoaded
    /\ h = NoHistory

\* saveToFile(document, resultsFile)
SaveToFile ==
    /\ pc = "store"
    /\ \E outcome \in SaveOutcomes :
          LET r == saveToFile(document, file, outcome)
          IN  /\ file' = r.file
              /\ h' = [h EXCEPT !.write = IF r.err THEN "saveError" ELSE "saved"]
    /\ pc' = "stored"
    /\ UNCHANGED <<inputVars, idx, resolveVars, vpnVars, pollVars,
                   connectionTime, seriesVars, parallelVars, avgStat,
                   speedWithoutVPN, machine, fileMutex, document, loadResult>>

\* loadFromFile(resultsFile), on the file as found or as just saved.
LoadFromFile ==
    /\ pc \in {"store", "stored"}
    /\ \E readFails \in BOOLEAN :
          /\ loadResult' = loadFromFile(file, readFails)
          /\ h' = [h EXCEPT !.readFailed = readFails /\ file.kind # "absent"]
    /\ pc' = "loaded"
    /\ UNCHANGED <<inputVars, idx, resolveVars, vpnVars, pollVars,
                   connectionTime, seriesVars, parallelVars, avgStat,
                   speedWithoutVPN, file, machine, fileMutex, document>>

StoreNext ==
    \/ SaveToFile
    \/ LoadFromFile

StoreSpec == StoreInit /\ [][StoreNext]_vars

(***************************************************************************)
(* Properties.                                                             *)
(***************************************************************************)
\* The goroutines of the current batch that have not returned.
ActiveGoroutines ==
    {g \in Goroutines : gpc[g] \in {"run", "publish", "storeLen", "exit"}}

\* The measurement invocations that have started and not returned control.
InFlight == (IF pc = "s_run" THEN 1 ELSE 0) + Cardinality(ActiveGoroutines)

InList(x, lines) == \E i \in 1..Len(lines) : lines[i] = x

\* C1: within one location the connect command comes first, then the
\* observation of Connected, then the whole batch, then the disconnect: no
\* invocation of a VPN batch has started unless connectToVPN returned
\* successfully, and disconnect is issued only with no invocation in flight,
\* in series and in parallel mode.
C1_ConnectMeasureDisconnect ==
    /\ h.queries > 0 => h.connects = 1
    /\ h.observed => (h.connects = 1 /\ ~h.connectFailed /\ h.queries >= 1)
    /\ (h.resolved /\ h.started > 0) => h.observed
    /\ (h.resolved /\ InFlight > 0) => (h.observed /\ h.disconnects = 0)
    /\ pc = "disconnect" =>
          (InFlight = 0 /\ h.observed /\ h.started >= 1 /\ h.started = h.ended)
    /\ h.disconnects > 0 =>
          /\ h.disconnects = 1
          /\ pc = "loop"
          /\ InFlight = 0
          /\ h.observed
          /\ h.started >= 1
          /\ h.started = h.ended

C1_Witness ==
    /\ ~singleThreaded
    /\ h.disconnects = 1
    /\ h.started = 2
    /\ h.observed

\* C2: the connect command of a later location is issued only after the
\* previously connected location has left the connected state.
C2_ConnectOnlyWhenDisconnected == pc = "connect" => vpnState # "Connected"

\* C3: a location whose resolved region token is empty gets no connect
\* command, no state query, no measurement invocation, no disconnect and no
\* call of writeToFile; the driver goes back to the loop.
C3_EmptyRegionSkipped ==
    h.regionEmpty =>
        /\ region = EmptyStr
        /\ pc \in {"checkRegion", "loop"}
        /\ h.connects = 0
        /\ h.queries = 0
        /\ h.started = 0
        /\ h.disconnects = 0
        /\ h.write = "none"

C3_Witness ==
    /\ h.regionEmpty
    /\ ~h.queryFailed
    /\ pc = "loop"
    /\ idx < nLocs

\* C4: when the connect command fails, no connection-state query is made,
\* no measurement runs, no disconnect is issued, writeToFile is not called,
\* and the driver is back at the loop for the next location.
C4_ConnectFailureSkips ==
    h.connectFailed =>
        /\ pc = "loop"
        /\ h.connects = 1
        /\ h.queries = 0
        /\ ~h.observed
        /\ h.started = 0
        /\ h.disconnects = 0
        /\ h.write = "none"

C4_Witness ==
    /\ h.connectFailed
    /\ pc = "loop"
    /\ idx < nLocs

\* C5: connectToVPN returns only with the last state query, made after the
\* connect command, having exit status zero and printing exactly Connected;
\* a query that failed or printed anything else is followed by one sleep and
\* another poll.
C5_ReturnsOnlyWhenConnected ==
    /\ pc = "connected" =>
          /\ ~stateRun.err
          /\ TrimSpace(stateRun.out) = ConnectedText
          /\ vpnState = "Connected"
          /\ h.connects = 1
          /\ h.queries >= 1
    /\ (pc = "poll" /\ h.queries > 0) =>
          /\ stateRun.err \/ TrimSpace(stateRun.out) # ConnectedText
          /\ polls = h.queries
    /\ pc = "pollCheck" => h.queries = polls + 1

C5_Witness ==
    /\ pc = "connected"
    /\ h.queries = 3

\* C6: whenever the region list contains the country+city candidate,
\* findRegion returns it, wherever the country-only candidate is listed.
C6_PrefersCountryCity ==
    (/\ pc = "checkRegion"
     /\ ~commandOut.err
     /\ InList(formattedLocationOf(location), commandOut.lines))
        => region = formattedLocationOf(location)

\* C7 as stated: the result is empty or a listed candidate, and it is empty
\* exactly when neither candidate is listed.
C7_EmptyIffNoCandidateListed ==
    (pc = "checkRegion" /\ ~commandOut.err) =>
        /\ \/ region = EmptyStr
           \/ /\ InList(region, commandOut.lines)
              /\ region \in {formattedLocationOf(location), countryOnlyOf(location)}
        /\ region = EmptyStr <=>
              /\ ~InList(formattedLocationOf(location), commandOut.lines)
              /\ ~InList(countryOnlyOf(location), commandOut.lines)

\* An empty line is listed with no country+city candidate before it.
EmptyLineFirst(lines, formattedLocation) ==
    \E i \in 1..Len(lines) :
        /\ lines[i] = EmptyStr
        /\ \A j \in 1..(i - 1) : lines[j] # formattedLocation

\* C7 (amended): the result is empty or a listed candidate; it is empty
\* exactly when neither candidate is listed, or the country is empty and an
\* empty line is listed before any country+city candidate.
C7_EmptyIffNoCandidateOrEmptyCountry ==
    (pc = "checkRegion" /\ ~commandOut.err) =>
        /\ \/ region = EmptyStr
           \/ /\ InList(region, commandOut.lines)
              /\ region \in {formattedLocationOf(location), countryOnlyOf(location)}
        /\ region = EmptyStr <=>
              \/ /\ ~InList(formattedLocationOf(location), commandOut.lines)
                 /\ ~InList(countryOnlyOf(location), commandOut.lines)
              \/ /\ location.Country = EmptyStr
                 /\ EmptyLineFirst(commandOut.lines, formattedLocationOf(location))

C7_Witness ==
    /\ pc = "checkRegion"
    /\ location = [Country |-> <<"R">>, City |-> <<"B">>]
    /\ commandOut = [err |-> FALSE, lines |-> << <<"r">> >>]
    /\ region = <<"r">>

\* C8: when the region query fails, the token is empty and the location is
\* skipped like an unmatched one: no connect, no measurement, no disconnect,
\* no call of writeToFile, and the driver goes back to the loop.
C8_QueryFailureSkips ==
    h.queryFailed =>
        /\ region = EmptyStr
        /\ h.regionEmpty
        /\ pc \in {"checkRegion", "loop"}
        /\ h.connects = 0
        /\ h.started = 0
        /\ h.disconnects = 0
        /\ h.write = "none"

C8_Witness ==
    /\ h.queryFailed
    /\ pc = "loop"
    /\ idx < nLocs

C10_ParallelJoin ==
    ~singleThreaded =>
        /\ pc \notin {"baseline", "p_launch", "p_wait"} => ActiveGoroutines = {}
        /\ chanClosed => ActiveGoroutines = {}
        /\ pc \in {"p_wait", "p_close", "p_drain"} =>
              (launched = speedTestCount /\ h.started = speedTestCount)
        /\ pc \in {"p_close", "p_drain"} =>
              \A g \in 1..speedTestCount : gpc[g] = "done"
        /\ pc = "panicked" => h.write = "panic"
        /\ pc \in {"p_launch", "p_wait", "p_close", "p_drain"} =>
              (Len(resultsChan) = h.sent /\ h.received = 0)
        /\ pc \in {"write", "writing", "disconnect", "loop", "panicked"} =>
              (h.received = h.sent /\ resultsChan = << >>)
        /\ (pc \in {"p_close", "p_drain"} /\ connectionTime # EmptyStr) =>
              h.sent = h.started - h.failed

C10_Witness ==
    /\ ~singleThreaded
    /\ pc = "write"
    /\ h.sent = 2
    /\ h.received = 2

\* The invocations of the current batch that ended without failure.
Succeeded == h.ended - h.failed

\* The samples they produced: the baseline batch collects none.
Samples == IF h.resolved THEN Succeeded ELSE 0

\* s reads "<digits>.<d><d>Mbps".
IsTwoDecimalMbps(s) ==
    /\ Len(s) >= 8
    /\ SubSeq(s, Len(s) - 3, Len(s)) = MbpsSuffix
    /\ s[Len(s) - 6] = "."
    /\ \A i \in (1..(Len(s) - 7)) \cup {Len(s) - 5, Len(s) - 4} : IsDigit(s[i])

\* The number of hundredths such a string denotes.
HundredthsOf(s) ==
    100 * ParseDigits(SubSeq(s, 1, Len(s) - 7), 0)
        + 10 * DigitValue(s[Len(s) - 5]) + DigitValue(s[Len(s) - 4])

\* s is total/count written with two decimals: no other number of
\* hundredths is nearer to the quotient.
IsMeanOf(s, total, count) ==
    /\ IsTwoDecimalMbps(s)
    /\ 2 * (100 * total - HundredthsOf(s) * count) <= count
    /\ 2 * (HundredthsOf(s) * count - 100 * total) <= count

\* The stats of the document in the results file.
FileStats == Unmarshal(file.data).VPNStats

\* C11 as stated: a parallel VPN batch ends with a stat saved exactly when
\* at least one of its invocations succeeded.
C11_SavedIffOneSucceeded ==
    (~singleThreaded /\ h.resolved /\ pc = "disconnect") =>
        (h.write = "saved" <=> Succeeded >= 1)

\* C11 (amended): in a parallel VPN batch every invocation ends whether or
\* not others failed, each success puts one sample on the channel and each
\* failure none; writeToFile is called exactly when at least one invocation
\* succeeded, with the mean of the successful invocations' figures; and
\* that stat is the last one of the file when the append succeeded.
C11_FailureIsolated ==
    (~singleThreaded /\ h.resolved) =>
        /\ pc \in {"p_close", "p_drain"} =>
              /\ h.ended = speedTestCount
              /\ Len(resultsChan) = speedTestCount - h.failed
        /\ pc \in {"write", "writing"} =>
              /\ Succeeded >= 1
              /\ IsMeanOf(avgStat.VPNDownloadSpeed, h.okDown, Succeeded)
              /\ IsMeanOf(avgStat.VPNUploadSpeed, h.okUp, Succeeded)
        /\ pc = "disconnect" => (h.write # "none" <=> Succeeded >= 1)
        /\ h.write = "saved" =>
              /\ file.kind = "doc"
              /\ FileStats # << >>
              /\ IsMeanOf(FileStats[Len(FileStats)].VPNDownloadSpeed,
                          h.okDown, Succeeded)
              /\ IsMeanOf(FileStats[Len(FileStats)].VPNUploadSpeed,
                          h.okUp, Succeeded)

C11_Witness ==
    /\ ~singleThreaded
    /\ h.resolved
    /\ pc = "disconnect"
    /\ h.started = 2
    /\ h.failed = 1
    /\ h.write = "saved"

\* C12: whenever a batch with samples has been averaged, the stat's
\* download and upload figures are sum/count of the samples' Mbps figures
\* written with two decimals, in series and in parallel mode alike; a batch
\* without samples yields no stat, no call of writeToFile and no entry in
\* the file, and no entry of the file is a zero-valued one.
C12_MeanOfSamples ==
    /\ pc \in {"write", "writing"} =>
          /\ Samples >= 1
          /\ avgStat # ZeroStat
          /\ IsMeanOf(avgStat.VPNDownloadSpeed, h.okDown, Samples)
          /\ IsMeanOf(avgStat.VPNUploadSpeed, h.okUp, Samples)
    /\ Samples = 0 =>
          /\ pc \notin {"write", "writing"}
          /\ avgStat = ZeroStat
          /\ h.write = "none"
          /\ file = NoFile
    /\ \A i \in 1..Len(FileStats) :
          /\ IsTwoDecimalMbps(FileStats[i].VPNDownloadSpeed)
          /\ IsTwoDecimalMbps(FileStats[i].VPNUploadSpeed)
    /\ h.write = "saved" =>
          /\ Len(FileStats) = 1
          /\ IsMeanOf(FileStats[1].VPNDownloadSpeed, h.okDown, Samples)
          /\ IsMeanOf(FileStats[1].VPNUploadSpeed, h.okUp, Samples)

C12_Witness ==
    /\ pc = "write"
    /\ Samples = 3
    /\ h.okDown = 600
    /\ avgStat.VPNDownloadSpeed =
           <<"2", "0", "0", ".", "0", "0", "M", "b", "p", "s">>

\* The descriptive fields of a stat.
DescriptiveOf(stat) ==
    <<stat.LocationName, stat.Server, stat.VPNLatency, stat.Timestamp,
      stat.Mode>>

\* C13: the stat handed to writeToFile has the descriptive fields of the
\* last sample: in series mode the sample of the last invocation (samples
\* are kept in invocation order), in parallel mode the sample at the end of
\* the channel, which is the one whose send completed last (each send puts
\* the sending goroutine's sample at the end of the channel).
C13_DescribedByLastSample ==
    [][/\ (pc = "s_avg" /\ pc' = "write") =>
              DescriptiveOf(avgStat') = DescriptiveOf(vpnStats[Len(vpnStats)])
       /\ (pc = "s_run" /\ pc' = "s_loop" /\ connectionTime # EmptyStr) =>
              /\ Len(vpnStats') = Len(vpnStats) + 1
              /\ SubSeq(vpnStats', 1, Len(vpnStats)) = vpnStats
              /\ vpnStats'[Len(vpnStats')].Mode = SeriesMode
       /\ (pc = "p_drain" /\ pc' = "write") =>
              DescriptiveOf(avgStat')
                  = DescriptiveOf(resultsChan[Len(resultsChan)])
       /\ (pc \in {"p_launch", "p_wait"} /\ resultsChan' # resultsChan) =>
              \E g \in Goroutines :
                  /\ gpc[g] = "publish"
                  /\ gpc'[g] = "exit"
                  /\ Len(resultsChan') = Len(resultsChan) + 1
                  /\ SubSeq(resultsChan', 1, Len(resultsChan)) = resultsChan
                  /\ resultsChan'[Len(resultsChan')].Server = gres[g].Host
                  /\ resultsChan'[Len(resultsChan')].Timestamp = gres[g].At
                  /\ resultsChan'[Len(resultsChan')].Mode = ParallelMode
      ]_vars

C13_Witness ==
    /\ ~singleThreaded
    /\ pc = "write"
    /\ h.okDown = 1002
    /\ avgStat.Server = "b.test"
    /\ avgStat.Mode = ParallelMode

\* The Mode string of the mode the run is in.
ModeOfRun == IF singleThreaded THEN SeriesMode ELSE ParallelMode

\* stat carries the duration connectToVPN returned for the current location
\* and the mode of the run.
StampedForLocation(stat) ==
    /\ stat.TimeToConnect = DurationString(h.elapsedMs)
    /\ stat.Mode = ModeOfRun

\* C14: every sample of a location's batch, the stat handed to writeToFile
\* and the stat saved for the location carry the serialized duration that
\* connectToVPN returned for this location and the Mode string of the mode
\* the batch ran in.
C14_StampedWithOwnConnectTime ==
    h.resolved =>
        /\ \A i \in 1..Len(vpnStats) : StampedForLocation(vpnStats[i])
        /\ \A i \in 1..Len(resultsChan) : StampedForLocation(resultsChan[i])
        /\ pc \in {"write", "writing"} => StampedForLocation(avgStat)
        /\ h.write = "saved" =>
              /\ FileStats # << >>
              /\ StampedForLocation(FileStats[Len(FileStats)])

C14_Witness ==
    /\ h.resolved
    /\ h.write = "saved"
    /\ Len(FileStats) = 2
    /\ FileStats[1].TimeToConnect # FileStats[2].TimeToConnect
    /\ h.elapsedMs > 0

\* C15: once a document has been saved, no later call of writeToFile
\* enters the branch that fills in MachineName, OS and WithoutVPN.
C15_IdentityFilledOnce ==
    [][(pc = "writing" /\ file.kind = "doc") => ~h'.populated]_vars

\* The stats already in a saved document are the first stats of the
\* document saved next.
StatsKept ==
    (file.kind = "doc" /\ file'.kind = "doc") =>
        /\ Len(Unmarshal(file'.data).VPNStats) >= Len(FileStats)
        /\ SubSeq(Unmarshal(file'.data).VPNStats, 1, Len(FileStats)) = FileStats

\* C16: from one saved document to the next the stats sequence only grows:
\* the earlier sequence is a prefix of the later one.
C16_StatsOnlyGrow == [][StatsKept]_vars

\* C17: the mutex is held exactly while main is between its Lock and the
\* return of writeToFile, no other execution context runs at that time, the
\* file changes only in a step that starts with the mutex held, and every
\* return of writeToFile (saved, load error, hostname error, save error,
\* panic) leaves the mutex free.
C17_OneWriterUnderMutex ==
    /\ [](/\ fileMutex <=> pc = "writing"
          /\ pc = "writing" => ActiveGoroutines = {})
    /\ [][/\ file' # file => (fileMutex /\ pc = "writing")
          /\ (pc = "writing" /\ pc' # "writing") =>
                 (fileMutex /\ ~fileMutex')]_vars

C17_Witness ==
    /\ ~singleThreaded
    /\ pc = "writing"
    /\ fileMutex
    /\ file.kind = "doc"

\* C18: a call of writeToFile ends with the document saved or with a load,
\* hostname or save error reported, and the run goes on after it.
C18_SavedOrErrorReported ==
    h.write # "none" =>
        /\ h.write \in {"saved", "loadError", "hostnameError", "saveError"}
        /\ pc # "panicked"

\* C19: loadFromFile returns the empty document and no error when the
\* file does not exist, and an error when the file exists and does not hold
\* a complete JSON document or cannot be read.
C19_MissingIsEmptyMalformedIsError ==
    pc = "loaded" =>
        /\ file.kind = "absent" =>
              (~loadResult.err /\ loadResult.data = EmptyResults)
        /\ (file.kind = "torn" \/ h.readFailed) => loadResult.err

C19_Witness ==
    /\ pc = "loaded"
    /\ file.kind = "torn"
    /\ ~h.readFailed
    /\ loadResult.err

\* C20 as stated: a document saved successfully and then loaded comes back
\* with no error and equal to the document saved, whatever the document.
C20_RoundTripEveryDocument ==
    (pc = "loaded" /\ h.write = "saved" /\ ~h.readFailed) =>
        (~loadResult.err /\ loadResult.data = document)

\* Some string of the document is not valid UTF-8.
HasInvalidUTF8(d) ==
    \/ InvalidUTF8Name \in {d.MachineName, d.OS}
    \/ \E i \in 1..Len(d.VPNStats) :
          InvalidUTF8Name \in {d.VPNStats[i].LocationName, d.VPNStats[i].Server,
                               d.VPNStats[i].Timestamp, d.VPNStats[i].Mode}

\* C20 (amended): a document all of whose strings are valid UTF-8, saved
\* successfully and then loaded, comes back with no error and equal to the
\* document saved in every field and every stat, in order; a string that is
\* not valid UTF-8 comes back with U+FFFD in place of the invalid bytes.
C20_RoundTripValidUTF8 ==
    (pc = "loaded" /\ h.write = "saved" /\ ~h.readFailed) =>
        /\ ~loadResult.err
        /\ ~HasInvalidUTF8(document) => loadResult.data = document
        /\ HasInvalidUTF8(document) =>
              (loadResult.data # document /\ ~HasInvalidUTF8(loadResult.data))

C20_Witness ==
    /\ pc = "loaded"
    /\ h.write = "saved"
    /\ document.MachineName = "pc"
    /\ Len(document.VPNStats) = 2
    /\ document.VPNStats[1] # document.VPNStats[2]
    /\ loadResult.data = document

(***************************************************************************)
(* Failure containment, concurrency and termination.                       *)
(***************************************************************************)
\* C21: after the input has been read no failure of resolution, connection,
\* measurement or persistence ends the run: whatever the external commands
\* return (the hostname and OS-version lookups of the first write
\* included), the process is never stopped part-way through the locations.
C21_NoFailureEndsRun == pc # "panicked"

\* The goroutines of the batch that have a measurement in hand and are at
\* the assignment to the package variable speedWithoutVPN, or part-way
\* through it.
BaselineWriters ==
    {g \in Goroutines :
        gpc[g] \in {"publish", "storeLen"} /\ connectionTime = EmptyStr}

\* C22: while the invocations of a parallel batch run concurrently, no
\* program variable other than the batch's channel is written by more than
\* one of them: at no time are two invocations both about to write
\* speedWithoutVPN with nothing ordering their writes.
C22_NoUnsynchronisedSharedWrite == Cardinality(BaselineWriters) <= 1

\* C23: for a location whose connect succeeded the disconnect command is
\* issued exactly once after the batch, whatever the measurements and the
\* persistence step did: once the location is over (the loop is back at
\* its head, or the process has stopped) one disconnect has been issued, and
\* never is a disconnect issued twice or without a connection observed.
C23_DisconnectExactlyOnce ==
    /\ h.disconnects <= 1
    /\ h.disconnects = 1 => h.observed
    /\ (h.observed /\ pc \in {"loop", "panicked"}) => h.disconnects = 1

\* C24: the results file is replaced atomically: at every point of a run,
\* a save that fails part-way included, the file is absent or holds a
\* complete document, never an empty or partly written one.
C24_FileAbsentOrComplete == file.kind \in {"absent", "doc"}

\* C25: the connect-poll loop has no retry limit and no timeout: it is left
\* exactly when a state query succeeds and reports Connected; a query that
\* fails or reports another state is followed by one more poll, and while
\* the loop runs the run starts no measurement and moves to no other
\* location.
C25_PollsUntilConnected ==
    [][(pc = "poll" \/ pc = "pollCheck") =>
         (/\ pc' \in {"poll", "pollCheck", "connected"}
          /\ (pc' = "connected") <=>
                 /\ pc = "pollCheck"
                 /\ ~stateRun.err
                 /\ TrimSpace(stateRun.out) = ConnectedText
          /\ (pc = "pollCheck" /\ pc' = "poll") => polls' = polls + 1
          /\ idx' = idx
          /\ h'.started = h.started
          /\ h'.disconnects = h.disconnects
          /\ location' = location)]_vars

C25_Witness ==
    /\ pc = "pollCheck"
    /\ polls = MaxPolls
    /\ h.queries = MaxPolls + 1
    /\ stateRun.err
    /\ vpnState = "Connected"
    /\ ~h.observed
    /\ h.started = 0

\* C26: a writeToFile call whose load fails (the file cannot be read or
\* does not parse) ends there: the file is left as it was, the call is not
\* repeated and its stat is kept nowhere; and the only stat a call ever
\* adds to the document is its own, so the stat that was dropped is in the
\* document neither after the call nor after any later one.
C26_LoadFailureDropsStat ==
    [][(pc = "writing" /\ pc' # "writing") =>
         (/\ (h'.write = "loadError") <=> (file.kind = "torn" \/ h'.readFailed)
          /\ (h'.write = "loadError") =>
                 /\ file' = file
                 /\ pc' = BatchReturnPc
                 /\ ~fileMutex'
                 /\ avgStat' = ZeroStat
                 /\ vpnStats' = << >>
                 /\ resultsChan' = << >>
          /\ (file' # file /\ file'.kind = "doc") =>
                 LET after == Unmarshal(file'.data).VPNStats
                 IN  \/ after = Append(FileStats, avgStat)
                     \/ after = <<avgStat>>)]_vars

C26_Witness ==
    /\ h.write = "loadError"
    /\ h.readFailed
    /\ file.kind = "doc"
    /\ Len(FileStats) = 1
    /\ idx = 2
    /\ pc = "disconnect"
    /\ avgStat = ZeroStat

\* The numbers written in s: the value of each maximal run of digits.
RECURSIVE ScanNumbers(_, _, _)
ScanNumbers(s, inRun, cur) ==
    IF s = << >> THEN (IF inRun THEN <<cur>> ELSE << >>)
    ELSE IF IsDigit(Head(s))
    THEN ScanNumbers(Tail(s), TRUE, 10 * cur + DigitValue(Head(s)))
    ELSE (IF inRun THEN <<cur>> ELSE << >>) \o ScanNumbers(Tail(s), FALSE, 0)

NumbersIn(s) == ScanNumbers(s, FALSE, 0)

\* s with its leading digits removed.
RECURSIVE AfterDigits(_)
AfterDigits(s) ==
    IF s # << >> /\ IsDigit(Head(s)) THEN AfterDigits(Tail(s)) ELSE s

\* s reads "<n>Mbps" where n is the integer quotient of bandwidth by 125000.
IsTruncatedMbps(s, bandwidth) ==
    /\ AfterDigits(s) = <<"M", "b", "p", "s">>
    /\ Len(NumbersIn(s)) = 1
    /\ NumbersIn(s)[1] * 125000 <= bandwidth
    /\ bandwidth < (NumbersIn(s)[1] + 1) * 125000

\* The sum of the download (or upload) figures of the samples.
RECURSIVE TotalOfSamples(_, _)
TotalOfSamples(stats, isDownload) ==
    IF stats = << >> THEN 0
    ELSE NumbersIn(IF isDownload THEN Head(stats).VPNDownloadSpeed
                                 ELSE Head(stats).VPNUploadSpeed)[1]
             + TotalOfSamples(Tail(stats), isDownload)

\* The samples a batch holds: in speedTest's slice or in the channel.
SamplesHeld == vpnStats \o resultsChan

\* C27: every sample's download and upload strings are the integer quotient
\* (cut off, not rounded) of the tool's bandwidth by 125000 followed by
\* "Mbps", the baseline string is built from the same two quotients, and the
\* mean handed to writeToFile is the mean of these integers.
C27_TruncatedQuotientBy125000 ==
    /\ [](/\ \A i \in 1..Len(SamplesHeld) :
                \E r \in ToolResults :
                    /\ SamplesHeld[i].Server = r.Host
                    /\ IsTruncatedMbps(SamplesHeld[i].VPNDownloadSpeed,
                                       r.Download)
                    /\ IsTruncatedMbps(SamplesHeld[i].VPNUploadSpeed, r.Upload)
          /\ speedWithoutVPN.data # EmptyStr =>
                \E r \in ToolResults :
                    LET built == NumbersIn(speedWithoutVPN.data)
                    IN  /\ Len(built) = 2
                        /\ built[1] * 125000 <= r.Download
                        /\ r.Download < (built[1] + 1) * 125000
                        /\ built[2] * 125000 <= r.Upload
                        /\ r.Upload < (built[2] + 1) * 125000)
    /\ [][(pc' = "write" /\ pc # "write") =>
             (/\ IsMeanOf(avgStat'.VPNDownloadSpeed,
                          TotalOfSamples(SamplesHeld, TRUE), Len(SamplesHeld))
              /\ IsMeanOf(avgStat'.VPNUploadSpeed,
                          TotalOfSamples(SamplesHeld, FALSE),
                          Len(SamplesHeld)))]_vars

\* A mean of the samples 1000 and 2 Mbps down (125000000 and 374999 in the
\* tool's unit), 500 and 1 Mbps up, beside a baseline of 1000 and 500.
C27_Witness ==
    /\ pc = "write"
    /\ NumbersIn(StringOf(speedWithoutVPN)) = <<1000, 500>>
    /\ avgStat.VPNDownloadSpeed
           = <<"5", "0", "1", ".", "0", "0", "M", "b", "p", "s">>
    /\ avgStat.VPNUploadSpeed
           = <<"2", "5", "0", ".", "5", "0", "M", "b", "p", "s">>

\* C28: in series mode a VPN batch is all-or-nothing: once an invocation
\* has failed the batch makes no further invocation, the samples of the
\* earlier invocations are dropped without being averaged, and writeToFile
\* is not called for the location; writeToFile is called only after all
\* speedTestCount invocations succeeded.
C28_SeriesAllOrNothing ==
    (singleThreaded /\ h.resolved) =>
        /\ h.failed > 0 =>
              /\ h.failed = 1
              /\ h.write = "none"
              /\ pc \in {"disconnect", "loop"}
              /\ vpnStats = << >>
              /\ avgStat = ZeroStat
              /\ ~fileMutex
        /\ (h.write # "none" \/ pc \in {"write", "writing"}) =>
              /\ h.failed = 0
              /\ h.ended = speedTestCount
              /\ Succeeded = speedTestCount

\* The second of two invocations failed after the first had succeeded.
C28_Witness ==
    /\ singleThreaded
    /\ h.resolved
    /\ speedTestCount = 2
    /\ h.ended = 2
    /\ h.failed = 1
    /\ h.okDown > 0
    /\ h.write = "none"
    /\ pc = "disconnect"

(***************************************************************************)
(* One call of runParallelSpeedTests on its own, from its first statement  *)
(* to its return, for the baseline and for a VPN batch. Every goroutine    *)
(* that can take a step eventually takes it (the Go scheduler runs every   *)
(* runnable goroutine), and every measurement invocation terminates.       *)
(***************************************************************************)
ParallelInit ==
    /\ singleThreaded = FALSE
    /\ speedTestCount \in 1..MaxCount
    /\ nLocs = 1
    /\ pc = "p_launch"
    /\ location = NoLocation
    /\ commandOut = NoCommandOut
    /\ machine = "?"
    /\ polls = 0
    /\ stateRun = NoRun
    /\ counter = 0
    /\ vpnStats = << >>
    /\ launched = 0
    /\ gpc = [g \in Goroutines |-> "idle"]
    /\ gres = [g \in Goroutines |-> NoResult]
    /\ wg = 0
    /\ resultsChan = << >>
    /\ chanClosed = FALSE
    /\ avgStat = ZeroStat
    /\ speedWithoutVPN = NoString
    /\ file = NoFile
    /\ fileMutex = FALSE
    /\ document = EmptyResults
    /\ loadResult = NotLoaded
    /\ \/ /\ idx = 0
          /\ region = EmptyStr
          /\ vpnState = "Disconnected"
          /\ connectionTime = EmptyStr
          /\ h = NoHistory
       \/ /\ InVpnBatch
          /\ h = BatchHistory(0, << >>)

ParallelNext ==
    \/ Launch
    \/ \E g \in Goroutines : GoResult(g)
    \/ \E g \in Goroutines : GoPublish(g)
    \/ \E g \in Goroutines : GoStoreLen(g)
    \/ \E g \in Goroutines : GoExit(g)
    \/ WgWait
    \/ CloseChan
    \/ Drain
    \/ WriteLock
    \/ WriteToFile

ParallelFairness ==
    /\ WF_vars(Launch)
    /\ \A g \in Goroutines :
          /\ WF_vars(GoResult(g))
          /\ WF_vars(GoPublish(g))
          /\ WF_vars(GoStoreLen(g))
          /\ WF_vars(GoExit(g))
    /\ WF_vars(WgWait)
    /\ WF_vars(CloseChan)
    /\ WF_vars(Drain)
    /\ WF_vars(WriteLock)
    /\ WF_vars(WriteToFile)

ParallelSpec == ParallelInit /\ [][ParallelNext]_vars /\ ParallelFairness

\* main is inside runParallelSpeedTests.
InParallelBatch ==
    pc \in {"p_launch", "p_wait", "p_close", "p_drain", "write", "writing"}

C30_BaselineLeavesNoFile ==
    /\ [](/\ idx = 0 =>
                /\ file = NoFile
                /\ pc \notin {"write", "writing"}
                /\ vpnStats = << >>
                /\ resultsChan = << >>
                /\ avgStat = ZeroStat
                /\ h.write = "none"
                /\ h.sent = 0
          /\ file.kind = "doc" =>
                /\ Len(FileStats) >= 1
                /\ \A i \in 1..Len(FileStats) :
                      FileStats[i].TimeToConnect # EmptyStr)
    /\ [][file' # file =>
             (/\ pc = "writing"
              /\ connectionTime # EmptyStr
              /\ idx >= 1
              /\ h.observed
              /\ Succeeded >= 1
              /\ avgStat # ZeroStat)]_vars

\* The run is over: the baseline was measured, every location was taken,
\* none had a stat to save, and there is no results file.
C30_Witness ==
    /\ pc = "done"
    /\ nLocs = MaxLocs
    /\ idx = MaxLocs
    /\ StringOf(speedWithoutVPN) # EmptyStr
    /\ file = NoFile

(***************************************************************************)
(* The recorded baseline and the order of the stats.                       *)
(***************************************************************************)
\* The number of decimal digits of n.
RECURSIVE NumDigits(_)
NumDigits(n) == IF n < 10 THEN 1 ELSE 1 + NumDigits(n \div 10)

\* s is the baseline string of the one measurement r: its two numbers are
\* the quotients of r's download and upload bandwidth by 125000, and it is
\* complete (it ends with the upload mark and holds no foreign byte).
IsBaselineOf(s, r) ==
    LET numbers == NumbersIn(s)
    IN  /\ Len(numbers) = 2
        /\ numbers[1] * 125000 <= r.Download
        /\ r.Download < (numbers[1] + 1) * 125000
        /\ numbers[2] * 125000 <= r.Upload
        /\ r.Upload < (numbers[2] + 1) * 125000
        /\ s[Len(s)] = "^"
        /\ \A i \in 1..Len(s) : s[i] # UnknownByte

\* The length of the baseline string of r: two numbers, "Mbps" twice, the
\* two marks and four blanks.
BaselineLen(r) ==
    NumDigits(r.Download \div 125000) + NumDigits(r.Upload \div 125000) + 14

\* The WithoutVPN field of the document in the results file.
FileWithoutVPN == Unmarshal(file.data).WithoutVPN

\* The baseline batch is running or has just returned: the history is that
\* of its invocations.
BeforeFirstLocation == idx = 0 /\ pc # "done"

C32_StatsInLocationOrder ==
    /\ [](/\ file.kind = "doc" => Len(FileStats) <= idx
          /\ idx <= nLocs
          /\ h.write # "none" => idx >= 1)
    /\ [][/\ idx' \in {idx, idx + 1}
          /\ idx' = idx + 1 => (pc = "loop" /\ h' = NoHistory)
          /\ h'.write # h.write =>
                \/ h.write = "none" /\ pc = "writing"
                \/ h' = NoHistory /\ idx' = idx + 1
                \/ h' = NoHistory /\ pc' = "done"
          /\ (file' # file /\ file'.kind = "doc") =>
                /\ pc = "writing"
                /\ h.write = "none"
                /\ LET after == Unmarshal(file'.data).VPNStats
                   IN  /\ after[Len(after)] = avgStat
                       /\ \/ SubSeq(after, 1, Len(after) - 1) = FileStats
                          \/ Len(after) = 1]_vars

\* Both locations of the input have a stat in the document, the second
\* location's after the first's.
C32_Witness ==
    /\ idx = 2
    /\ nLocs = 2
    /\ file.kind = "doc"
    /\ Len(FileStats) = 2
    /\ FileStats[1] # FileStats[2]
    /\ h.write = "saved"
    /\ pc = "disconnect"

====
